---- MODULE Spec2Model ----
(***************************************************************************)
(* A model of the poll server actions of alx-polly                         *)
(* (app/lib/actions/poll-actions.ts) over the polls, options and votes     *)
(* relations of the backing store.  Every storage round trip of a server   *)
(* action is one atomic step; the requests of concurrent callers           *)
(* interleave between round trips.                                         *)
(***************************************************************************)
EXTENDS Integers, Sequences, FiniteSets, TLC

VARIABLES
    polls,            \* polls relation: poll id -> row
    options,          \* options relation, partitioned by poll_id: id -> texts in insertion order
    votes,            \* votes relation, partitioned by poll_id: id -> rows in insertion order
    pollSeq,          \* number of poll rows inserted so far (ids and created_at follow it)
    uniqueVoteIndex,  \* whether the store carries the unique index on votes(poll_id, user_id)
    call,             \* per request slot: the server action in flight and its locals
    forms,            \* the form submissions callers make (fixed by Init)
    response,         \* the result returned by the step just taken, if it returned one
    view,             \* the data returned with that result by a reading action
    now,              \* the store's clock, in days
    sample,           \* the poll and vote rows handed to the analytics functions
    ui                \* the poll creation form: its option list and the rendered one

vars ==
    <<polls, options, votes, pollSeq, uniqueVoteIndex, call, forms, response,
      view, now, sample, ui>>

----------------------------------------------------------------------------
(* Bounds of the model *)

NumProcs == 2      \* concurrent requests
MaxPolls == 2      \* poll rows ever inserted
MaxVotes == 2      \* vote rows stored at a time
MaxIndex == 3      \* largest option index a caller submits
MaxRawLen == 3     \* longest option list enumerated in full

Procs == 1..NumProcs
PollIds == 1..MaxPolls

----------------------------------------------------------------------------
(* Values *)

Null == "<null>"                 \* JavaScript null (no user, no error, absent form field)
Users == {"u1", "u2"}

\* JavaScript strings that the code inspects are sequences of characters.
IsSpace(c) == c \in {" "}

LowerOf(c) ==
    CASE c = "A" -> "a"
      [] c = "B" -> "b"
      [] c = "C" -> "c"
      [] c = "Q" -> "q"
      [] c = "R" -> "r"
      [] OTHER -> c

\* String.prototype.trim
RECURSIVE TrimLeft(_)
TrimLeft(s) ==
    IF s # <<>> /\ IsSpace(Head(s)) THEN TrimLeft(Tail(s)) ELSE s

RECURSIVE TrimRight(_)
TrimRight(s) ==
    IF s # <<>> /\ IsSpace(s[Len(s)]) THEN TrimRight(SubSeq(s, 1, Len(s) - 1)) ELSE s

trim(s) == TrimRight(TrimLeft(s))

\* String.prototype.toLocaleLowerCase
\* A key that keeps the case of the value.
toLocaleLowerCase_asIs(s) == s

toLocaleLowerCase(s) == [i \in 1..Len(s) |-> LowerOf(s[i])]

----------------------------------------------------------------------------
(* Identifiers.  A caller names a poll by an id token: token k in PollIds    *)
(* is the id of the k-th inserted poll, token 0 is an id that is not a      *)
(* UUID of versions 1..5.  isUuid works on the text of the id.              *)

HexDigits == {"0","1","2","3","4","5","6","7","8","9",
              "a","b","c","d","e","f","A","B","C","D","E","F"}
Digit == <<"1","2","3","4","5","6","7","8","9">>

Zeros(n) == [i \in 1..n |-> "0"]

IdText(k) ==
    IF k \in 1..9
    THEN Zeros(8) \o <<"-">> \o Zeros(4) \o <<"-", "4">> \o Zeros(3)
         \o <<"-", "8">> \o Zeros(3) \o <<"-">> \o Zeros(11) \o <<Digit[k]>>
    ELSE Zeros(8) \o <<"-">> \o Zeros(4) \o <<"-">> \o Zeros(4)
         \o <<"-">> \o Zeros(4) \o <<"-">> \o Zeros(12)

\* A check of the length of the id alone.
isUuid_lengthOnly(id) == Len(id) = 36

\* The pattern without the classes of the version and variant digits.
isUuid_anyVersion(id) ==
    /\ Len(id) = 36
    /\ \A i \in 1..36 :
          IF i \in {9, 14, 19, 24} THEN id[i] = "-" ELSE id[i] \in HexDigits

isUuid(id) ==
    /\ Len(id) = 36
    /\ \A i \in 1..36 :
         CASE i \in {9, 14, 19, 24} -> id[i] = "-"
           [] i = 15 -> id[i] \in {"1","2","3","4","5"}
           [] i = 20 -> id[i] \in {"8","9","a","b","A","B"}
           [] OTHER -> id[i] \in HexDigits

IdInputs == 0..MaxPolls

----------------------------------------------------------------------------
(* Option indices.  A submitted index is a JavaScript number: its floor     *)
(* (whole) and whether it has a fractional part (frac).                     *)

\* The indices callers submit: -1, 0, the last two up to MaxIndex, and 0.5.
OptionIndexInputs ==
    {[whole |-> i, frac |-> FALSE] : i \in {-1, 0, MaxIndex - 1, MaxIndex}}
        \cup {[whole |-> 0, frac |-> TRUE]}

Number_isInteger(x) == ~x.frac
LessThanZero(x) == x.whole < 0
AtLeast(x, n) == x.whole >= n      \* x >= n for an integer n

----------------------------------------------------------------------------
(* Option Normalizer and Poll Validator *)

MaxOptionLen == 100
MaxQuestionLen == 200
MinOptions == 2
MaxOptions == 10
NormalizeCap == 10

RECURSIVE normalizeLoop(_, _, _, _)
normalizeLoop(raw, i, seen, result) ==
    IF i > Len(raw) THEN result
    ELSE LET val == trim(raw[i])
             key == toLocaleLowerCase(val)
         IN  IF val = <<>> THEN normalizeLoop(raw, i + 1, seen, result)
             ELSE IF key \in seen THEN normalizeLoop(raw, i + 1, seen, result)
             ELSE IF Len(result) + 1 >= NormalizeCap THEN Append(result, val)
             ELSE normalizeLoop(raw, i + 1, seen \cup {key}, Append(result, val))

normalizeOptions(raw) == normalizeLoop(raw, 1, {}, <<>>)

\* z.coerce.date(): new Date(v).  An absent form field is null, and new Date(null)
\* is the epoch; the empty string gives an invalid date, which zod rejects.
Epoch == "1970-01-01T00:00:00.000Z"
InvalidDate == "<Invalid Date>"
coerceDate(v) ==
    CASE v = Null -> Epoch
      [] v = ""   -> InvalidDate
      [] OTHER    -> v

PollOptionSchema_ok(s) == Len(trim(s)) >= 1 /\ Len(trim(s)) <= MaxOptionLen

PollSchema_safeParse(input) ==
    LET q  == trim(input.question)
        os == [i \in 1..Len(input.options) |-> trim(input.options[i])]
        so == coerceDate(input.scheduled_open_time)
        sc == coerceDate(input.scheduled_close_time)
    IN  [success |->
            /\ Len(q) >= 1 /\ Len(q) <= MaxQuestionLen
            /\ \A i \in 1..Len(input.options) : PollOptionSchema_ok(input.options[i])
            /\ Len(os) >= MinOptions /\ Len(os) <= MaxOptions
            /\ so # InvalidDate /\ sc # InvalidDate,
         data |-> [question |-> q, options |-> os,
                   scheduled_open_time |-> so, scheduled_close_time |-> sc]]

\* The form submissions the callers of the concurrent specifications make.
FormInputs ==
    << [question |-> <<"Q">>, options |-> << <<"a">>, <<"b">> >>,
        scheduled_open_time |-> Null, scheduled_close_time |-> Null],
       [question |-> <<" ", "R", " ">>,
        options |-> << <<" ", "a">>, <<"A">>, <<>>, <<"b">>, <<"c">> >>,
        scheduled_open_time |-> "2025-01-01T09:00", scheduled_close_time |-> Null],
       [question |-> <<"Q">>, options |-> << <<"a">>, <<"A", " ">> >>,
        scheduled_open_time |-> Null, scheduled_close_time |-> Null] >>

\* A string of n characters.
Chars(n) == [i \in 1..n |-> "x"]

\* Twelve option texts, no two equal ignoring case.
DistinctTexts ==
    << <<"0">>, <<"1">>, <<"2">>, <<"3">>, <<"4">>, <<"5">>,
       <<"6">>, <<"7">>, <<"8">>, <<"9">>, <<"a">>, <<"b">> >>

\* Option fields as typed: values, values in another case, padded values, blanks.
RawOptionTexts == {<<"a">>, <<"A">>, <<" ", "a">>, <<>>, <<" ">>, <<"b">>}

\* Every list of at most MaxRawLen such fields.
ShortOptionLists == UNION {[1..n -> RawOptionTexts] : n \in 0..MaxRawLen}

\* Lists at and over the limits on the number and on the length of options.
LongOptionLists ==
    { SubSeq(DistinctTexts, 1, 9), SubSeq(DistinctTexts, 1, 10),
      SubSeq(DistinctTexts, 1, 11), DistinctTexts,
      << <<"a">>, <<"A">>, <<>> >> \o DistinctTexts \o << <<"B">> >>,
      << <<"a">>, <<"a">>, <<"b">> >>,
      << <<"a">>, Chars(MaxOptionLen) >>,
      << <<"a">>, Chars(MaxOptionLen + 1) >>,
      << <<"a">>, <<" ">> \o Chars(MaxOptionLen) \o <<" ">> >>,
      << <<"a">>, <<"b">>, Chars(MaxOptionLen + 1), <<"c">> >> }

QuestionInputs ==
    { <<>>, <<" ">>, <<"Q">>, <<" ", "R", " ">>, Chars(MaxQuestionLen),
      Chars(MaxQuestionLen + 1), <<" ">> \o Chars(MaxQuestionLen) \o <<" ">> }

\* The schedule fields: absent (null), filled in, or left empty in the open
\* schedule panel.
DateInputs == {Null, "2025-01-01T09:00", ""}

\* The form submissions of the validation specification: every option list
\* with a plain question and no schedule, and every question and schedule
\* with three option lists.
ValidatorInputs ==
    { [question |-> <<"Q">>, options |-> o,
       scheduled_open_time |-> Null, scheduled_close_time |-> Null] :
         o \in ShortOptionLists \cup LongOptionLists }
    \cup
    { [question |-> q, options |-> o,
       scheduled_open_time |-> so, scheduled_close_time |-> sc] :
         q \in QuestionInputs,
         o \in { << <<"a">>, <<"b">> >>, << <<"a">> >>, << <<"a">>, <<"A">>, <<"b">> >> },
         so \in DateInputs, sc \in DateInputs }

\* What createPoll and updatePoll compute from the FormData before any await.
ParseForm(f) ==
    LET formData == forms[f]
    IN  PollSchema_safeParse(
            [question |-> formData.question,
             options |-> normalizeOptions(formData.options),
             scheduled_open_time |-> formData.scheduled_open_time,
             scheduled_close_time |-> formData.scheduled_close_time])

----------------------------------------------------------------------------
(* Error messages *)

MsgValidation == "Please provide a valid question and at least two unique options (max 10)."
MsgLoginCreate == "You must be logged in to create a poll."
MsgCreateFailed == "Failed to create poll."
MsgLoginVote == "You must be logged in to vote."
MsgInvalidId == "Invalid poll id."
MsgInvalidOption == "Invalid option selected."
MsgPollNotFound == "Poll not found."
MsgAlreadyVoted == "You have already voted on this poll."
MsgNotAuthenticated == "Not authenticated"
MsgLoginUpdate == "You must be logged in to update a poll."
MsgLoginPublish == "You must be logged in to publish a poll."
MsgInvalidPollID == "Invalid poll ID"
MsgPollNotFoundOrDenied == "Poll not found or access denied"

\* error.message of the collaborators
MsgAuthSessionMissing == "Auth session missing!"
MsgStoreFailure == "<store: request failed>"
MsgUniqueViolation == "duplicate key value violates unique constraint"
MsgForeignKeyViolation == "insert or update violates foreign key constraint"
MsgNoRows == "JSON object requested, multiple (or no) rows returned"

\* The error kinds of the specification
ErrorKind(msg) ==
    CASE msg = Null -> "Ok"
      [] msg \in {MsgLoginCreate, MsgLoginVote, MsgNotAuthenticated, MsgLoginUpdate,
                  MsgLoginPublish, MsgAuthSessionMissing} -> "Unauthenticated"
      [] msg \in {MsgInvalidId, MsgInvalidOption, MsgInvalidPollID} -> "InvalidInput"
      [] msg = MsgValidation -> "ValidationError"
      [] msg \in {MsgPollNotFound, MsgPollNotFoundOrDenied} -> "NotFound"
      [] msg = MsgAlreadyVoted -> "AlreadyVoted"
      [] OTHER -> "StorageError"

----------------------------------------------------------------------------
(* The identity gateway: supabase.auth.getUser() *)

AuthOutcomes ==
    {[user |-> u, error |-> Null] : u \in Users}
        \cup {[user |-> Null, error |-> Null],
              [user |-> Null, error |-> MsgAuthSessionMissing]}

----------------------------------------------------------------------------
(* The backing store *)

DefaultStatus == "draft"      \* polls.status when the insert names none

\* select ... from polls order by created_at desc limit 1
LatestPollId ==
    IF DOMAIN polls = {} THEN 0
    ELSE CHOOSE k \in DOMAIN polls :
            \A j \in DOMAIN polls : polls[j].created_at <= polls[k].created_at

\* the rows of polls with id = .. and user_id = ..
\* A filter on the owner column that compares it with no user.
RowsMatching_noOwner(id, user) == {k \in DOMAIN polls : k = id /\ polls[k].user_id = Null}

\* A filter on the id alone.
RowsMatching_anyOwner(id, user) == {k \in DOMAIN polls : k = id}

RowsMatching(id, user) == {k \in DOMAIN polls : k = id /\ polls[k].user_id = user}

\* select count from votes where poll_id = .. and user_id = ..
CountVotes(id, user) ==
    Cardinality({i \in 1..Len(votes[id]) : votes[id][i].user_id = user})

RECURSIVE TotalVotesUpTo(_)
TotalVotesUpTo(k) == IF k = 0 THEN 0 ELSE Len(votes[k]) + TotalVotesUpTo(k - 1)
TotalVotes == TotalVotesUpTo(MaxPolls)

\* A round trip to the store answers, or fails with the store's own error.
StoreOutcomes == {"ok", "failed"}

\* The rows of a dependent relation that remain when the polls in gone are deleted.
Cascade(rows, gone) == [k \in PollIds |-> IF k \in gone THEN <<>> ELSE rows[k]]

\* The store rejects a row that references no poll.
ForeignKeyOk(id) == id \in DOMAIN polls

\* The unique index on votes(poll_id, user_id), where the store carries it.
UniqueIndexOk(id, user) == uniqueVoteIndex => CountVotes(id, user) = 0

----------------------------------------------------------------------------
(* Requests *)

NoIndex == [whole |-> 0, frac |-> FALSE]

IdleCall ==
    [pc |-> "idle", op |-> Null, user |-> Null, pollId |-> 0,
     optionIndex |-> NoIndex, form |-> 0, data |-> 0, newPollId |-> 0,
     rows |-> <<>>]

NoResponse ==
    [op |-> Null, user |-> Null, pollId |-> 0,
     optionIndex |-> NoIndex, form |-> 0, data |-> 0, error |-> Null,
     store |-> "none"]

Request(op, user, id, idx, f) ==
    [pc |-> "idle", op |-> op, user |-> user, pollId |-> id,
     optionIndex |-> idx, form |-> f, data |-> 0, newPollId |-> 0,
     rows |-> <<>>]

\* No data: the action returned none, or the caller has received it.
NoView == [kind |-> "none"]

NoSample == [kind |-> "none"]

\* useState(["", ""]): the component's option list and the list of its last render
InitialForm == [options |-> <<"", "">>, rendered |-> <<"", "">>]

\* The parts of the state a specification leaves alone unless it says otherwise.
Quiet ==
    /\ view = NoView
    /\ now = 0
    /\ sample = NoSample
    /\ ui = InitialForm

\* The step returns { error } to the caller of request r in slot p; store is the
\* outcome of the storage round trip of the step ("none" when it made none).
Return(p, r, error, store) ==
    /\ call' = [call EXCEPT ![p] = IdleCall]
    /\ response' = [op |-> r.op, user |-> r.user, pollId |-> r.pollId,
                    optionIndex |-> r.optionIndex, form |-> r.form,
                    data |-> r.data, error |-> error, store |-> store]

\* The step ends in an await: the request goes on at pc.
Goto(p, r, pc) ==
    /\ call' = [call EXCEPT ![p] = [r EXCEPT !.pc = pc]]
    /\ response' = NoResponse

Init ==
    /\ forms = FormInputs
    /\ polls = <<>>
    /\ options = [k \in PollIds |-> <<>>]
    /\ votes = [k \in PollIds |-> <<>>]
    /\ pollSeq = 0
    /\ uniqueVoteIndex \in BOOLEAN
    /\ call = [p \in Procs |-> IdleCall]
    /\ response = NoResponse
    /\ Quiet

----------------------------------------------------------------------------
(* createPoll *)

\* The value of the jsonb column polls.options: an array of texts or null.  The
\* insert of createPoll does not name the column, so a new row holds null.
JsonNull == [array |-> FALSE, items |-> <<>>]
JsonArray(items) == [array |-> TRUE, items |-> items]
Array_isArray(v) == v.array

NewPollRow(user, data, seq) ==
    [user_id |-> user, question |-> data.question, status |-> DefaultStatus,
     scheduled_open_time |-> data.scheduled_open_time,
     scheduled_close_time |-> data.scheduled_close_time,
     options |-> JsonNull,
     created_at |-> seq]

\* validation, getUser, and the insert into polls
CreatePoll(p) ==
    /\ call[p].pc = "idle"
    /\ response = NoResponse
    /\ UNCHANGED <<forms, view, now, sample, ui>>
    /\ UNCHANGED <<options, votes, uniqueVoteIndex>>
    /\ \E auth \in AuthOutcomes, f \in DOMAIN forms :
        LET parsed == ParseForm(f)
            r == Request("createPoll", auth.user, 0, NoIndex, f)
        IN  IF ~parsed.success
            THEN Return(p, r, MsgValidation, "none") /\ UNCHANGED <<polls, pollSeq>>
            ELSE IF auth.error # Null
            THEN Return(p, r, auth.error, "none") /\ UNCHANGED <<polls, pollSeq>>
            ELSE IF auth.user = Null
            THEN Return(p, r, MsgLoginCreate, "none") /\ UNCHANGED <<polls, pollSeq>>
            ELSE \E store \in StoreOutcomes :
                IF store = "failed"
                THEN Return(p, r, MsgStoreFailure, store) /\ UNCHANGED <<polls, pollSeq>>
                ELSE /\ pollSeq < MaxPolls
                     /\ pollSeq' = pollSeq + 1
                     /\ polls' = [k \in DOMAIN polls \cup {pollSeq + 1} |->
                                    IF k = pollSeq + 1
                                    THEN NewPollRow(auth.user, parsed.data, pollSeq + 1)
                                    ELSE polls[k]]
                     /\ Goto(p, [r EXCEPT !.data = pollSeq + 1], "create_selectId")

\* const pollId = (select id from polls order by created_at desc limit 1).data?.id
CreatePollSelectId(p) ==
    /\ call[p].pc = "create_selectId"
    /\ response = NoResponse
    /\ UNCHANGED <<forms, view, now, sample, ui>>
    /\ UNCHANGED <<polls, options, votes, pollSeq, uniqueVoteIndex>>
    /\ \E store \in StoreOutcomes :
        LET pollId == IF store = "failed" THEN 0 ELSE LatestPollId
        IN  IF pollId = 0
            THEN Return(p, call[p], MsgCreateFailed, store)
            ELSE Goto(p, [call[p] EXCEPT !.newPollId = pollId], "create_insertOptions")

\* insert into options the parsed options with poll_id = pollId
CreatePollInsertOptions(p) ==
    /\ call[p].pc = "create_insertOptions"
    /\ response = NoResponse
    /\ UNCHANGED <<forms, view, now, sample, ui>>
    /\ UNCHANGED <<polls, votes, pollSeq, uniqueVoteIndex>>
    /\ \E store \in StoreOutcomes :
        LET parsed == ParseForm(call[p].form)
            pollId == call[p].newPollId
        IN  IF store = "failed"
            THEN Return(p, call[p], MsgStoreFailure, store) /\ UNCHANGED options
            ELSE IF ~ForeignKeyOk(pollId)
            THEN Return(p, call[p], MsgForeignKeyViolation, "fk_violation")
                 /\ UNCHANGED options
            ELSE /\ options' = [options EXCEPT ![pollId] = @ \o parsed.data.options]
                 /\ Return(p, call[p], Null, store)

----------------------------------------------------------------------------
(* submitVote *)

InvalidIndex(optionIndex) ==
    ~Number_isInteger(optionIndex) \/ LessThanZero(optionIndex)

\* optionIndex > optionsLen in place of optionIndex >= optionsLen
OutOfRange_offByOne(optionIndex, optionsLen) == optionIndex.whole > optionsLen

OutOfRange(optionIndex, optionsLen) == AtLeast(optionIndex, optionsLen)

\* existingCount > 1 in place of existingCount > 0
AlreadyVoted_moreThanOne(existingCount) == existingCount > 1

AlreadyVoted(existingCount) == existingCount > 0

\* A vote row that stores the first option whatever the caller chose.
VoteRow_firstOption(r) ==
    [user_id |-> r.user, option_index |-> 0, created_at |-> now]

\* A vote row that drops the user id.
VoteRow_anonymous(r) ==
    [user_id |-> Null, option_index |-> r.optionIndex.whole, created_at |-> now]

VoteRow(r) ==
    [user_id |-> r.user, option_index |-> r.optionIndex.whole, created_at |-> now]

\* getUser, the checks of the arguments, and the lookup of the poll with its options
SubmitVote(p) ==
    /\ call[p].pc = "idle"
    /\ response = NoResponse
    /\ UNCHANGED <<forms, view, now, sample, ui>>
    /\ UNCHANGED <<polls, options, votes, pollSeq, uniqueVoteIndex>>
    /\ \E auth \in AuthOutcomes, id \in IdInputs, idx \in OptionIndexInputs :
        LET r == Request("submitVote", auth.user, id, idx, 0)
        IN  IF auth.user = Null THEN Return(p, r, MsgLoginVote, "none")
            ELSE IF ~isUuid(IdText(id)) THEN Return(p, r, MsgInvalidId, "none")
            ELSE IF InvalidIndex(idx) THEN Return(p, r, MsgInvalidOption, "none")
            ELSE \E store \in StoreOutcomes :
                LET found == store = "ok" /\ id \in DOMAIN polls
                    optionsLen == IF found THEN Len(options[id]) ELSE 0
                IN  IF ~found THEN Return(p, r, MsgPollNotFound, store)
                    ELSE IF OutOfRange(idx, optionsLen)
                    THEN Return(p, r, MsgInvalidOption, store)
                    ELSE Goto(p, r, "vote_countExisting")

\* select count of the votes of (pollId, user.id)
SubmitVoteCountExisting(p) ==
    /\ call[p].pc = "vote_countExisting"
    /\ response = NoResponse
    /\ UNCHANGED <<forms, view, now, sample, ui>>
    /\ UNCHANGED <<polls, options, votes, pollSeq, uniqueVoteIndex>>
    /\ \E store \in StoreOutcomes :
        IF store = "failed" THEN Return(p, call[p], MsgStoreFailure, store)
        ELSE IF AlreadyVoted(CountVotes(call[p].pollId, call[p].user))
        THEN Return(p, call[p], MsgAlreadyVoted, store)
        ELSE Goto(p, call[p], "vote_insert")

\* insert into votes (poll_id, user_id, option_index)
SubmitVoteInsert(p) ==
    /\ call[p].pc = "vote_insert"
    /\ response = NoResponse
    /\ UNCHANGED <<forms, view, now, sample, ui>>
    /\ UNCHANGED <<polls, options, pollSeq, uniqueVoteIndex>>
    /\ \E store \in StoreOutcomes :
        LET id == call[p].pollId
        IN  IF store = "failed"
            THEN Return(p, call[p], MsgStoreFailure, store) /\ UNCHANGED votes
            ELSE IF ~ForeignKeyOk(id)
            THEN Return(p, call[p], MsgForeignKeyViolation, "fk_violation")
                 /\ UNCHANGED votes
            ELSE IF ~UniqueIndexOk(id, call[p].user)
            THEN Return(p, call[p], MsgUniqueViolation, "unique_violation")
                 /\ UNCHANGED votes
            ELSE /\ TotalVotes < MaxVotes
                 /\ votes' = [votes EXCEPT ![id] = Append(@, VoteRow(call[p]))]
                 /\ Return(p, call[p], Null, store)

----------------------------------------------------------------------------
(* deletePoll *)

\* the id check, getUser, and delete from polls where id = id and
\* user_id = user.id; the options and votes of a deleted poll go with it
DeletePoll(p) ==
    /\ call[p].pc = "idle"
    /\ response = NoResponse
    /\ UNCHANGED <<forms, view, now, sample, ui>>
    /\ UNCHANGED <<pollSeq, uniqueVoteIndex>>
    /\ \E auth \in AuthOutcomes, id \in IdInputs :
        LET r == Request("deletePoll", auth.user, id, NoIndex, 0)
            gone == RowsMatching(id, auth.user)
        IN  IF ~isUuid(IdText(id))
            THEN Return(p, r, MsgInvalidId, "none") /\ UNCHANGED <<polls, options, votes>>
            ELSE IF auth.error # Null
            THEN Return(p, r, auth.error, "none") /\ UNCHANGED <<polls, options, votes>>
            ELSE IF auth.user = Null
            THEN Return(p, r, MsgNotAuthenticated, "none")
                 /\ UNCHANGED <<polls, options, votes>>
            ELSE \E store \in StoreOutcomes :
                IF store = "failed"
                THEN Return(p, r, MsgStoreFailure, store)
                     /\ UNCHANGED <<polls, options, votes>>
                ELSE /\ polls' = [k \in DOMAIN polls \ gone |-> polls[k]]
                     /\ options' = Cascade(options, gone)
                     /\ votes' = Cascade(votes, gone)
                     /\ Return(p, r, Null, store)

----------------------------------------------------------------------------
(* updatePoll *)

\* An update that writes the whole row anew, status included.
UpdatedPollRow_resetStatus(row, data) ==
    [row EXCEPT !.question = data.question,
                !.status = DefaultStatus,
                !.scheduled_open_time = data.scheduled_open_time,
                !.scheduled_close_time = data.scheduled_close_time]

UpdatedPollRow(row, data) ==
    [row EXCEPT !.question = data.question,
                !.scheduled_open_time = data.scheduled_open_time,
                !.scheduled_close_time = data.scheduled_close_time]

\* the id check, validation, getUser, and
\* update polls set question, schedule where id = pollId and user_id = user.id
UpdatePoll(p) ==
    /\ call[p].pc = "idle"
    /\ response = NoResponse
    /\ UNCHANGED <<forms, view, now, sample, ui>>
    /\ UNCHANGED <<options, votes, pollSeq, uniqueVoteIndex>>
    /\ \E auth \in AuthOutcomes, id \in IdInputs, f \in DOMAIN forms :
        LET parsed == ParseForm(f)
            r == Request("updatePoll", auth.user, id, NoIndex, f)
            hit == RowsMatching(id, auth.user)
        IN  IF ~isUuid(IdText(id))
            THEN Return(p, r, MsgInvalidId, "none") /\ UNCHANGED polls
            ELSE IF ~parsed.success
            THEN Return(p, r, MsgValidation, "none") /\ UNCHANGED polls
            ELSE IF auth.error # Null
            THEN Return(p, r, auth.error, "none") /\ UNCHANGED polls
            ELSE IF auth.user = Null
            THEN Return(p, r, MsgLoginUpdate, "none") /\ UNCHANGED polls
            ELSE \E store \in StoreOutcomes :
                IF store = "failed"
                THEN Return(p, r, MsgStoreFailure, store) /\ UNCHANGED polls
                ELSE /\ polls' = [k \in DOMAIN polls |->
                                    IF k \in hit
                                    THEN UpdatedPollRow(polls[k], parsed.data)
                                    ELSE polls[k]]
                     /\ Goto(p, r, "update_deleteOptions")

\* delete from options where poll_id = pollId
OptionsToDelete(r) == {k \in PollIds : k = r.pollId}

UpdatePollDeleteOptions(p) ==
    /\ call[p].pc = "update_deleteOptions"
    /\ response = NoResponse
    /\ UNCHANGED <<forms, view, now, sample, ui>>
    /\ UNCHANGED <<polls, votes, pollSeq, uniqueVoteIndex>>
    /\ \E store \in StoreOutcomes :
        IF store = "failed"
        THEN Return(p, call[p], MsgStoreFailure, store) /\ UNCHANGED options
        ELSE /\ options' = [k \in PollIds |->
                               IF k \in OptionsToDelete(call[p]) THEN <<>> ELSE options[k]]
             /\ Goto(p, call[p], "update_insertOptions")

\* insert into options the parsed options with poll_id = pollId
UpdatePollInsertOptions(p) ==
    /\ call[p].pc = "update_insertOptions"
    /\ response = NoResponse
    /\ UNCHANGED <<forms, view, now, sample, ui>>
    /\ UNCHANGED <<polls, votes, pollSeq, uniqueVoteIndex>>
    /\ \E store \in StoreOutcomes :
        LET parsed == ParseForm(call[p].form)
            pollId == call[p].pollId
        IN  IF store = "failed"
            THEN Return(p, call[p], MsgStoreFailure, store) /\ UNCHANGED options
            ELSE IF ~ForeignKeyOk(pollId)
            THEN Return(p, call[p], MsgForeignKeyViolation, "fk_violation")
                 /\ UNCHANGED options
            ELSE /\ options' = [options EXCEPT ![pollId] = @ \o parsed.data.options]
                 /\ Return(p, call[p], Null, store)

----------------------------------------------------------------------------
(* publishPoll *)

\* the id check, getUser, and
\* update polls set status = 'open' where id = pollId and user_id = user.id
PublishPoll(p) ==
    /\ call[p].pc = "idle"
    /\ response = NoResponse
    /\ UNCHANGED <<forms, view, now, sample, ui>>
    /\ UNCHANGED <<options, votes, pollSeq, uniqueVoteIndex>>
    /\ \E auth \in AuthOutcomes, id \in IdInputs :
        LET r == Request("publishPoll", auth.user, id, NoIndex, 0)
            hit == RowsMatching(id, auth.user)
        IN  IF ~isUuid(IdText(id))
            THEN Return(p, r, MsgInvalidId, "none") /\ UNCHANGED polls
            ELSE IF auth.error # Null
            THEN Return(p, r, auth.error, "none") /\ UNCHANGED polls
            ELSE IF auth.user = Null
            THEN Return(p, r, MsgLoginPublish, "none") /\ UNCHANGED polls
            ELSE \E store \in StoreOutcomes :
                IF store = "failed"
                THEN Return(p, r, MsgStoreFailure, store) /\ UNCHANGED polls
                ELSE /\ polls' = [k \in DOMAIN polls |->
                                    IF k \in hit THEN [polls[k] EXCEPT !.status = "open"]
                                    ELSE polls[k]]
                     /\ Return(p, r, Null, store)

----------------------------------------------------------------------------
(* Number arithmetic of the analytics: IEEE 754 binary64, round to nearest even *)

\* Width of the significand of a Number.
SignificandBits == 53

\* A Number that is zero, and a positive Number sig[1].sig[2..53] * 2^exp with
\* sig[1] = 1; bits are written most significant first.
Zero == [sig |-> <<>>, exp |-> 0]

RECURSIVE Pow2(_)
Pow2(n) == IF n = 0 THEN 1 ELSE 2 * Pow2(n - 1)

\* bits with one added to the integer they spell; one bit longer on overflow
RECURSIVE IncrementBits(_)
IncrementBits(bits) ==
    IF bits = <<>> THEN <<1>>
    ELSE IF bits[Len(bits)] = 0
    THEN SubSeq(bits, 1, Len(bits) - 1) \o <<1>>
    ELSE IncrementBits(SubSeq(bits, 1, Len(bits) - 1)) \o <<0>>

\* The Number nearest to bits[1].bits[2..] * 2^exp, where sticky tells that
\* the exact value has further nonzero bits below bits; ties go to even.
RoundToNumber(bits, sticky, exp) ==
    IF Len(bits) <= SignificandBits
    THEN [sig |-> bits \o [i \in 1..(SignificandBits - Len(bits)) |-> 0], exp |-> exp]
    ELSE LET kept == SubSeq(bits, 1, SignificandBits)
             guard == bits[SignificandBits + 1]
             rest == sticky \/ \E i \in (SignificandBits + 2)..Len(bits) : bits[i] = 1
             up == guard = 1 /\ (rest \/ kept[SignificandBits] = 1)
             inc == IncrementBits(kept)
         IN  IF ~up THEN [sig |-> kept, exp |-> exp]
             ELSE IF Len(inc) > SignificandBits
             THEN [sig |-> SubSeq(inc, 1, SignificandBits), exp |-> exp + 1]
             ELSE [sig |-> inc, exp |-> exp]

\* the first n bits of r / d after the binary point, for 0 <= r < d
RECURSIVE QuotientBits(_, _, _)
QuotientBits(r, d, n) ==
    IF n = 0 THEN <<>>
    ELSE LET b == IF 2 * r >= d THEN 1 ELSE 0
         IN  <<b>> \o QuotientBits(2 * r - b * d, d, n - 1)

\* what is left of r after those n bits
RECURSIVE QuotientRest(_, _, _)
QuotientRest(r, d, n) ==
    IF n = 0 THEN r
    ELSE LET b == IF 2 * r >= d THEN 1 ELSE 0
         IN  QuotientRest(2 * r - b * d, d, n - 1)

\* the least k with n * 2^k >= d
RECURSIVE ShiftUp(_, _)
ShiftUp(n, d) == IF n >= d THEN 0 ELSE 1 + ShiftUp(2 * n, d)

\* the greatest k with d * 2^k <= n, for n >= d
RECURSIVE ShiftDown(_, _)
ShiftDown(n, d) == IF 2 * d > n THEN 0 ELSE 1 + ShiftDown(n, 2 * d)

\* n / d for integers n >= 0 and d > 0
Divide(n, d) ==
    IF n = 0 THEN Zero
    ELSE LET up == ShiftUp(n, d)
             down == IF n >= d THEN ShiftDown(n, d) ELSE 0
             num == n * Pow2(up)
             den == d * Pow2(down)
             bits == <<1>> \o QuotientBits(num - den, den, SignificandBits)
             rest == QuotientRest(num - den, den, SignificandBits)
         IN  RoundToNumber(bits, rest # 0, down - up)

\* bits (least significant first) times the small integer m, with carry in
RECURSIVE TimesSmallLsb(_, _, _)
TimesSmallLsb(lsb, m, carry) ==
    IF lsb = <<>>
    THEN IF carry = 0 THEN <<>> ELSE <<carry % 2>> \o TimesSmallLsb(<<>>, m, carry \div 2)
    ELSE LET t == lsb[1] * m + carry
         IN  <<t % 2>> \o TimesSmallLsb(SubSeq(lsb, 2, Len(lsb)), m, t \div 2)

Reverse(s) == [i \in 1..Len(s) |-> s[Len(s) + 1 - i]]

\* x * m for a Number x and an integer m > 0 that is itself a Number
Times(x, m) ==
    IF x = Zero THEN Zero
    ELSE LET product == Reverse(TimesSmallLsb(Reverse(x.sig), m, 0))
         IN  RoundToNumber(product, FALSE, x.exp + Len(product) - SignificandBits)

RECURSIVE BitsToNat(_)
BitsToNat(bits) ==
    IF bits = <<>> THEN 0
    ELSE 2 * BitsToNat(SubSeq(bits, 1, Len(bits) - 1)) + bits[Len(bits)]

\* Math.round(x) for a Number 0 <= x < 2^30: floor(x + 0.5)
Math_round(x) ==
    IF x = Zero \/ x.exp < -1 THEN 0
    ELSE IF x.exp = -1 THEN 1
    ELSE BitsToNat(SubSeq(x.sig, 1, x.exp + 1)) + x.sig[x.exp + 2]

\* Math.round(count / total * 100)
Percentage(count, total) == Math_round(Times(Divide(count, total), 100))

----------------------------------------------------------------------------
(* The analytics functions *)

\* new Set(votes.map(v => v.user_id)).size
UniqueVoters(rows) == Cardinality({rows[i].user_id : i \in 1..Len(rows)})

\* options.map((option, index) => ({ option, votes, percentage })) over the
\* counts of rows per option_index
OptionResults(poll, rows) ==
    LET optionList == IF Array_isArray(poll.options) THEN poll.options.items ELSE <<>>
        optionCounts(index) ==
            Cardinality({j \in 1..Len(rows) : rows[j].option_index = index})
    IN  [i \in 1..Len(optionList) |->
            [option |-> optionList[i],
             votes |-> optionCounts(i - 1),
             percentage |-> IF Len(rows) > 0
                            THEN Percentage(optionCounts(i - 1), Len(rows))
                            ELSE 0]]

\* the days in ascending order
RECURSIVE Ascending(_)
Ascending(days) ==
    IF days = {} THEN <<>>
    ELSE LET first == CHOOSE d \in days : \A e \in days : d <= e
         IN  <<first>> \o Ascending(days \ {first})

\* votes grouped by day, sorted by date
VotingTimeline(rows) ==
    LET days == Ascending({rows[i].created_at : i \in 1..Len(rows)})
    IN  [j \in 1..Len(days) |->
            [date |-> days[j],
             votes |-> Cardinality({i \in 1..Len(rows) :
                                      rows[i].created_at = days[j]})]]

processPollAnalytics(poll, rows) ==
    [kind |-> "pollAnalytics",
     poll |-> [id |-> poll.id, question |-> poll.question, createdAt |-> poll.created_at],
     summary |-> [totalVotes |-> Len(rows),
                  uniqueVoters |-> UniqueVoters(rows),
                  optionsCount |-> Len(OptionResults(poll, rows))],
     optionResults |-> OptionResults(poll, rows),
     votingTimeline |-> VotingTimeline(rows)]

\* rows.filter(v => v.poll_id === id)
VotesOfPoll(rows, id) == SelectSeq(rows, LAMBDA v : v.poll_id = id)

\* pollPerformance.sort((a, b) => b.totalVotes - a.totalVotes), a stable sort
RECURSIVE SortByTotalVotes(_)
SortByTotalVotes(entries) ==
    IF entries = <<>> THEN <<>>
    ELSE LET sorted == SortByTotalVotes(SubSeq(entries, 1, Len(entries) - 1))
             last == entries[Len(entries)]
             before == Cardinality({i \in 1..Len(sorted) :
                                      sorted[i].totalVotes >= last.totalVotes})
         IN  SubSeq(sorted, 1, before) \o <<last>>
                 \o SubSeq(sorted, before + 1, Len(sorted))

\* the first poll with the most votes, if any poll has a vote
MostPopularPoll(pollRows, rows) ==
    LET voteCount(i) == Len(VotesOfPoll(rows, pollRows[i].id))
        most == {i \in 1..Len(pollRows) :
                    /\ voteCount(i) > 0
                    /\ \A j \in 1..Len(pollRows) :
                        \/ voteCount(j) < voteCount(i)
                        \/ voteCount(j) = voteCount(i) /\ i <= j}
    IN  IF most = {} THEN <<>>
        ELSE LET i == CHOOSE i \in most : TRUE
             IN  <<[id |-> pollRows[i].id, voteCount |-> voteCount(i)]>>

\* overview (totalPolls, totalVotes, uniqueVoters), mostPopularPoll and
\* pollPerformance of processAnalyticsData
processAnalyticsData(pollRows, rows) ==
    [kind |-> "userAnalytics",
     overview |-> [totalPolls |-> Len(pollRows),
                   totalVotes |-> Len(rows),
                   uniqueVoters |-> UniqueVoters(rows)],
     mostPopularPoll |-> MostPopularPoll(pollRows, rows),
     pollPerformance |->
        SortByTotalVotes(
            [i \in 1..Len(pollRows) |->
                LET pollVotes == VotesOfPoll(rows, pollRows[i].id)
                IN  [id |-> pollRows[i].id,
                     question |-> pollRows[i].question,
                     totalVotes |-> Len(pollVotes),
                     createdAt |-> pollRows[i].created_at,
                     options |-> OptionResults(pollRows[i], pollVotes)]])]

\* one entry per day from today - (days - 1) up to today
processVotingTrends(rows, days) ==
    [kind |-> "trends",
     trends |-> [j \in 1..days |->
                    LET date == now - (days - j)
                    IN  [date |-> date,
                         votes |-> Cardinality({i \in 1..Len(rows) :
                                                  rows[i].created_at = date})]]]

----------------------------------------------------------------------------
(* The reading actions: getPollById, getUserPolls and the analytics *)

\* const pageSize = 10
PageSize == 10

\* Pages callers ask for, windows of days they ask for, and the last day of the clock.
MaxPage == 2
MaxDays == 2
MaxDay == 2

\* getVotingTrends(days: number = 30)
DefaultDays == 30

\* the ids in descending order of created_at
RECURSIVE NewestFirst(_, _)
NewestFirst(rel, ids) ==
    IF ids = {} THEN <<>>
    ELSE LET newest == CHOOSE k \in ids :
                           \A j \in ids : rel[j].created_at <= rel[k].created_at
         IN  <<newest>> \o NewestFirst(rel, ids \ {newest})

\* .eq("user_id", user.id) on the polls relation rel
OwnedBy(rel, user) == {k \in DOMAIN rel : rel[k].user_id = user}

\* select id, question, options, created_at
PollRow(rel, k) ==
    [id |-> k, question |-> rel[k].question, options |-> rel[k].options,
     created_at |-> rel[k].created_at]

\* from polls select id, question, options, created_at where user_id = user
\* order by created_at desc
SelectUserPolls(rel, user) ==
    LET ids == NewestFirst(rel, OwnedBy(rel, user))
    IN  [i \in 1..Len(ids) |-> PollRow(rel, ids[i])]

\* the votes of every poll, whoever owns it
RECURSIVE SelectVotesIn_everyPoll(_, _, _)
SelectVotesIn_everyPoll(rel, ids, k) ==
    IF k = 0 THEN <<>>
    ELSE SelectVotesIn_everyPoll(rel, ids, k - 1)
            \o [i \in 1..Len(rel[k]) |->
                    [poll_id |-> k, option_index |-> rel[k][i].option_index,
                     created_at |-> rel[k][i].created_at,
                     user_id |-> rel[k][i].user_id]]

\* from votes select poll_id, option_index, created_at, user_id
\* where poll_id in ids, over the partitions 1..k of the votes relation rel
RECURSIVE SelectVotesIn(_, _, _)
SelectVotesIn(rel, ids, k) ==
    IF k = 0 THEN <<>>
    ELSE SelectVotesIn(rel, ids, k - 1)
            \o (IF k \in ids
                THEN [i \in 1..Len(rel[k]) |->
                        [poll_id |-> k, option_index |-> rel[k][i].option_index,
                         created_at |-> rel[k][i].created_at,
                         user_id |-> rel[k][i].user_id]]
                ELSE <<>>)

\* select *, options(*) : the poll row with its option rows
PollWithOptions(k) ==
    [id |-> k, user_id |-> polls[k].user_id, question |-> polls[k].question,
     status |-> polls[k].status, created_at |-> polls[k].created_at,
     options |-> options[k]]

\* a range that runs one row past to
Range_oneMore(rows, from, to) ==
    SubSeq(rows, from + 1, IF to + 2 < Len(rows) THEN to + 2 ELSE Len(rows))

\* .range(from, to) of a result
Range(rows, from, to) ==
    SubSeq(rows, from + 1, IF to + 1 < Len(rows) THEN to + 1 ELSE Len(rows))

\* A day passes.
Tick ==
    /\ response = NoResponse
    /\ \A q \in Procs : call[q].pc = "idle"
    /\ now < MaxDay
    /\ now' = now + 1
    /\ UNCHANGED <<polls, options, votes, pollSeq, uniqueVoteIndex, call, forms>>
    /\ UNCHANGED <<response, view, sample, ui>>

\* the id check, and select * from polls with options where id = id, single()
GetPollById(p) ==
    /\ call[p].pc = "idle"
    /\ response = NoResponse
    /\ UNCHANGED <<forms, now, sample, ui>>
    /\ UNCHANGED <<polls, options, votes, pollSeq, uniqueVoteIndex>>
    /\ \E id \in IdInputs :
        LET r == Request("getPollById", Null, id, NoIndex, 0)
        IN  IF ~isUuid(IdText(id))
            THEN Return(p, r, MsgInvalidId, "none") /\ view' = NoView
            ELSE \E store \in StoreOutcomes :
                IF store = "failed"
                THEN Return(p, r, MsgStoreFailure, store) /\ view' = NoView
                ELSE IF id \notin DOMAIN polls
                THEN Return(p, r, MsgNoRows, store) /\ view' = NoView
                ELSE /\ Return(p, r, Null, store)
                     /\ view' = [kind |-> "poll", poll |-> PollWithOptions(id)]

\* getUser, and select *, options(*) from polls where user_id = user.id
\* order by created_at desc, range(from, to)
GetUserPolls(p) ==
    /\ call[p].pc = "idle"
    /\ response = NoResponse
    /\ UNCHANGED <<forms, now, sample, ui>>
    /\ UNCHANGED <<polls, options, votes, pollSeq, uniqueVoteIndex>>
    /\ \E auth \in AuthOutcomes, page \in 1..MaxPage :
        LET r == Request("getUserPolls", auth.user, 0, NoIndex, 0)
            from == (page - 1) * PageSize
            to == from + PageSize - 1
            ids == NewestFirst(polls, OwnedBy(polls, auth.user))
            found == [i \in 1..Len(ids) |-> PollWithOptions(ids[i])]
        IN  IF auth.user = Null
            THEN /\ Return(p, [r EXCEPT !.data = page], MsgNotAuthenticated, "none")
                 /\ view' = [kind |-> "polls", polls |-> <<>>]
            ELSE \E store \in StoreOutcomes :
                IF store = "failed"
                THEN /\ Return(p, [r EXCEPT !.data = page], MsgStoreFailure, store)
                     /\ view' = [kind |-> "polls", polls |-> <<>>]
                ELSE /\ Return(p, [r EXCEPT !.data = page], Null, store)
                     /\ view' = [kind |-> "polls", polls |-> Range(found, from, to)]

\* getUser, the id check, and select from polls where id = pollId and
\* user_id = user.id, single()
GetPollAnalytics(p) ==
    /\ call[p].pc = "idle"
    /\ response = NoResponse
    /\ UNCHANGED <<forms, view, now, sample, ui>>
    /\ UNCHANGED <<polls, options, votes, pollSeq, uniqueVoteIndex>>
    /\ \E auth \in AuthOutcomes, id \in IdInputs :
        LET r == Request("getPollAnalytics", auth.user, id, NoIndex, 0)
        IN  IF auth.user = Null THEN Return(p, r, MsgNotAuthenticated, "none")
            ELSE IF ~isUuid(IdText(id)) THEN Return(p, r, MsgInvalidPollID, "none")
            ELSE \E store \in StoreOutcomes :
                IF store = "failed" \/ RowsMatching(id, auth.user) = {}
                THEN Return(p, r, MsgPollNotFoundOrDenied, store)
                ELSE Goto(p, [r EXCEPT !.rows = <<PollRow(polls, id)>>],
                          "analytics_selectVotes")

\* select option_index, created_at, user_id from votes where poll_id = pollId,
\* and processPollAnalytics
GetPollAnalyticsSelectVotes(p) ==
    /\ call[p].pc = "analytics_selectVotes"
    /\ response = NoResponse
    /\ UNCHANGED <<forms, now, sample, ui>>
    /\ UNCHANGED <<polls, options, votes, pollSeq, uniqueVoteIndex>>
    /\ \E store \in StoreOutcomes :
        IF store = "failed"
        THEN Return(p, call[p], MsgStoreFailure, store) /\ view' = NoView
        ELSE /\ Return(p, call[p], Null, store)
             /\ view' = processPollAnalytics(
                            call[p].rows[1],
                            SelectVotesIn(votes, {call[p].pollId}, MaxPolls))

\* getUser, and select from polls where user_id = user.id
GetUserAnalytics(p) ==
    /\ call[p].pc = "idle"
    /\ response = NoResponse
    /\ UNCHANGED <<forms, view, now, sample, ui>>
    /\ UNCHANGED <<polls, options, votes, pollSeq, uniqueVoteIndex>>
    /\ \E auth \in AuthOutcomes :
        LET r == Request("getUserAnalytics", auth.user, 0, NoIndex, 0)
        IN  IF auth.user = Null THEN Return(p, r, MsgNotAuthenticated, "none")
            ELSE \E store \in StoreOutcomes :
                IF store = "failed" THEN Return(p, r, MsgStoreFailure, store)
                ELSE Goto(p, [r EXCEPT !.rows = SelectUserPolls(polls, auth.user)],
                          "userAnalytics_selectVotes")

\* select from votes where poll_id in pollIds, and processAnalyticsData
GetUserAnalyticsSelectVotes(p) ==
    /\ call[p].pc = "userAnalytics_selectVotes"
    /\ response = NoResponse
    /\ UNCHANGED <<forms, now, sample, ui>>
    /\ UNCHANGED <<polls, options, votes, pollSeq, uniqueVoteIndex>>
    /\ \E store \in StoreOutcomes :
        IF store = "failed"
        THEN Return(p, call[p], MsgStoreFailure, store) /\ view' = NoView
        ELSE /\ Return(p, call[p], Null, store)
             /\ view' = processAnalyticsData(
                            call[p].rows,
                            SelectVotesIn(
                                votes,
                                {call[p].rows[i].id : i \in 1..Len(call[p].rows)},
                                MaxPolls))

\* votes.gte("created_at", cutoffDate): the votes of the last days days
Since(rows, days) == SelectSeq(rows, LAMBDA v : v.created_at >= now - days)

\* getUser, and select id from polls where user_id = user.id
GetVotingTrends(p) ==
    /\ call[p].pc = "idle"
    /\ response = NoResponse
    /\ UNCHANGED <<forms, now, sample, ui>>
    /\ UNCHANGED <<polls, options, votes, pollSeq, uniqueVoteIndex>>
    /\ \E auth \in AuthOutcomes, days \in 1..MaxDays \cup {DefaultDays} :
        LET r == [Request("getVotingTrends", auth.user, 0, NoIndex, 0)
                    EXCEPT !.data = days]
            found == SelectUserPolls(polls, auth.user)
        IN  IF auth.user = Null
            THEN Return(p, r, MsgNotAuthenticated, "none") /\ view' = NoView
            ELSE \E store \in StoreOutcomes :
                IF store = "failed"
                THEN Return(p, r, MsgStoreFailure, store) /\ view' = NoView
                ELSE IF Len(found) = 0
                THEN /\ Return(p, r, Null, store)
                     /\ view' = [kind |-> "trends", trends |-> <<>>]
                ELSE Goto(p, [r EXCEPT !.rows = found], "trends_selectVotes")
                     /\ view' = view

\* select from votes where poll_id in pollIds and created_at >= cutoffDate,
\* and processVotingTrends
GetVotingTrendsSelectVotes(p) ==
    /\ call[p].pc = "trends_selectVotes"
    /\ response = NoResponse
    /\ UNCHANGED <<forms, now, sample, ui>>
    /\ UNCHANGED <<polls, options, votes, pollSeq, uniqueVoteIndex>>
    /\ \E store \in StoreOutcomes :
        IF store = "failed"
        THEN Return(p, call[p], MsgStoreFailure, store) /\ view' = NoView
        ELSE /\ Return(p, call[p], Null, store)
             /\ view' = processVotingTrends(
                            Since(SelectVotesIn(
                                      votes,
                                      {call[p].rows[i].id : i \in 1..Len(call[p].rows)},
                                      MaxPolls),
                                  call[p].data),
                            call[p].data)

----------------------------------------------------------------------------
(* Specifications *)

\* The caller receives the result of the step just taken.
Respond ==
    /\ response # NoResponse
    /\ response' = NoResponse
    /\ view' = NoView
    /\ UNCHANGED <<polls, options, votes, pollSeq, uniqueVoteIndex, call, forms>>
    /\ UNCHANGED <<now, sample, ui>>

\* Every server action, from the empty store.
Next ==
    \/ Respond
    \/ Tick
    \/ \E p \in Procs :
        \/ CreatePoll(p)
        \/ CreatePollSelectId(p)
        \/ CreatePollInsertOptions(p)
        \/ SubmitVote(p)
        \/ SubmitVoteCountExisting(p)
        \/ SubmitVoteInsert(p)
        \/ DeletePoll(p)
        \/ UpdatePoll(p)
        \/ UpdatePollDeleteOptions(p)
        \/ UpdatePollInsertOptions(p)
        \/ PublishPoll(p)
        \/ GetPollById(p)
        \/ GetUserPolls(p)
        \/ GetPollAnalytics(p)
        \/ GetPollAnalyticsSelectVotes(p)
        \/ GetUserAnalytics(p)
        \/ GetUserAnalyticsSelectVotes(p)
        \/ GetVotingTrends(p)
        \/ GetVotingTrendsSelectVotes(p)

Spec == Init /\ [][Next]_vars

\* Concurrent poll creation and deletion, from the empty store.
NextCreate ==
    \/ Respond
    \/ \E p \in Procs :
        \/ CreatePoll(p)
        \/ CreatePollSelectId(p)
        \/ CreatePollInsertOptions(p)
        \/ DeletePoll(p)

SpecCreate == Init /\ [][NextCreate]_vars

\* The store after u1's createPoll of the second form has returned { error: null }
\* on the empty store: poll 1 with its three options, no votes.
InitVote ==
    /\ forms = FormInputs
    /\ polls = [k \in {1} |-> NewPollRow("u1", ParseForm(2).data, 1)]
    /\ options = [k \in PollIds |-> IF k = 1 THEN ParseForm(2).data.options ELSE <<>>]
    /\ votes = [k \in PollIds |-> <<>>]
    /\ pollSeq = 1
    /\ uniqueVoteIndex \in BOOLEAN
    /\ call = [p \in Procs |-> IdleCall]
    /\ response = NoResponse
    /\ Quiet

\* Editing, publishing and deleting an existing poll, concurrently.
NextEdit ==
    \/ Respond
    \/ \E p \in Procs :
        \/ UpdatePoll(p)
        \/ UpdatePollDeleteOptions(p)
        \/ UpdatePollInsertOptions(p)
        \/ PublishPoll(p)
        \/ DeletePoll(p)

SpecEdit == InitVote /\ [][NextEdit]_vars

\* Voting on an existing poll, concurrently with other votes and with the
\* edits (one at a time), the publication and the deletion of the poll.
NoEditInFlight == \A q \in Procs : call[q].op # "updatePoll"

NextVote ==
    \/ Respond
    \/ \E p \in Procs :
        \/ SubmitVote(p)
        \/ SubmitVoteCountExisting(p)
        \/ SubmitVoteInsert(p)
        \/ DeletePoll(p)
        \/ NoEditInFlight /\ UpdatePoll(p)
        \/ UpdatePollDeleteOptions(p)
        \/ UpdatePollInsertOptions(p)
        \/ PublishPoll(p)

SpecVote == InitVote /\ [][NextVote]_vars

\* One createPoll or updatePoll at a time, of one form submission drawn from
\* ValidatorInputs, from the empty store.
InitValidate ==
    /\ forms \in {<<f>> : f \in ValidatorInputs}
    /\ polls = <<>>
    /\ options = [k \in PollIds |-> <<>>]
    /\ votes = [k \in PollIds |-> <<>>]
    /\ pollSeq = 0
    /\ uniqueVoteIndex \in BOOLEAN
    /\ call = [p \in Procs |-> IdleCall]
    /\ response = NoResponse
    /\ Quiet

NoCallInFlight == \A q \in Procs : call[q].pc = "idle"

NextValidate ==
    \/ Respond
    \/ \E p \in Procs :
        \/ NoCallInFlight /\ CreatePoll(p)
        \/ CreatePollSelectId(p)
        \/ CreatePollInsertOptions(p)
        \/ NoCallInFlight /\ UpdatePoll(p)
        \/ UpdatePollDeleteOptions(p)
        \/ UpdatePollInsertOptions(p)

SpecValidate == InitValidate /\ [][NextValidate]_vars

\* Every server action, one call at a time.
NextSerial ==
    \/ Respond
    \/ \E p \in Procs :
        \/ NoCallInFlight /\ CreatePoll(p)
        \/ CreatePollSelectId(p)
        \/ CreatePollInsertOptions(p)
        \/ NoCallInFlight /\ SubmitVote(p)
        \/ SubmitVoteCountExisting(p)
        \/ SubmitVoteInsert(p)
        \/ NoCallInFlight /\ DeletePoll(p)
        \/ NoCallInFlight /\ UpdatePoll(p)
        \/ UpdatePollDeleteOptions(p)
        \/ UpdatePollInsertOptions(p)
        \/ NoCallInFlight /\ PublishPoll(p)
        \/ NoCallInFlight /\ GetPollById(p)
        \/ NoCallInFlight /\ GetPollAnalytics(p)
        \/ GetPollAnalyticsSelectVotes(p)

\* The empty store; callers submit the second and third form.
InitSerial ==
    /\ forms = SubSeq(FormInputs, 2, 3)
    /\ polls = <<>>
    /\ options = [k \in PollIds |-> <<>>]
    /\ votes = [k \in PollIds |-> <<>>]
    /\ pollSeq = 0
    /\ uniqueVoteIndex \in BOOLEAN
    /\ call = [p \in Procs |-> IdleCall]
    /\ response = NoResponse
    /\ Quiet

SpecSerial == InitSerial /\ [][NextSerial]_vars

\* The empty store on day 0; callers submit the first form, with two options.
InitAnalytics ==
    /\ forms = SubSeq(FormInputs, 1, 1)
    /\ polls = <<>>
    /\ options = [k \in PollIds |-> <<>>]
    /\ votes = [k \in PollIds |-> <<>>]
    /\ pollSeq = 0
    /\ uniqueVoteIndex \in BOOLEAN
    /\ call = [p \in Procs |-> IdleCall]
    /\ response = NoResponse
    /\ Quiet

\* Creating polls, voting and reading, one call at a time, while days pass.
NextAnalytics ==
    \/ Respond
    \/ Tick
    \/ \E p \in Procs :
        \/ NoCallInFlight /\ CreatePoll(p)
        \/ CreatePollSelectId(p)
        \/ CreatePollInsertOptions(p)
        \/ NoCallInFlight /\ SubmitVote(p)
        \/ SubmitVoteCountExisting(p)
        \/ SubmitVoteInsert(p)
        \/ NoCallInFlight /\ GetUserPolls(p)
        \/ NoCallInFlight /\ GetPollAnalytics(p)
        \/ GetPollAnalyticsSelectVotes(p)
        \/ NoCallInFlight /\ GetUserAnalytics(p)
        \/ GetUserAnalyticsSelectVotes(p)
        \/ NoCallInFlight /\ GetVotingTrends(p)
        \/ GetVotingTrendsSelectVotes(p)

SpecAnalytics == InitAnalytics /\ [][NextAnalytics]_vars

\* Most votes an option of a tallied poll has, and most distinct voters.
MaxTally == 23
MaxVoters == 2

\* c0 votes for option 0, then c1 for option 1 and c2 for option 2, cast in
\* turn by voters voters
TallyVotes(c0, c1, c2, voters) ==
    [j \in 1..(c0 + c1 + c2) |->
        [poll_id |-> 1,
         option_index |-> IF j <= c0 THEN 0 ELSE IF j <= c0 + c1 THEN 1 ELSE 2,
         created_at |-> 0,
         user_id |-> <<"u1", "u2", "u3", "u4">>[((j - 1) % voters) + 1]]]

\* A poll row whose options column is null or holds two or three texts, and
\* the vote rows of the poll, handed to the analytics functions.
InitTally ==
    /\ forms = FormInputs
    /\ polls = <<>>
    /\ options = [k \in PollIds |-> <<>>]
    /\ votes = [k \in PollIds |-> <<>>]
    /\ pollSeq = 0
    /\ uniqueVoteIndex \in BOOLEAN
    /\ call = [p \in Procs |-> IdleCall]
    /\ response = NoResponse
    /\ view = NoView
    /\ now = 0
    /\ ui = InitialForm
    /\ \E c0 \in 0..MaxTally, c1 \in 0..MaxTally, c2 \in 0..1, voters \in 1..MaxVoters :
       \E column \in {JsonNull, JsonArray(<< <<"a">>, <<"b">> >>),
                       JsonArray(<< <<"a">>, <<"b">>, <<"c">> >>)} :
        sample = [kind |-> "poll",
                  poll |-> [id |-> 1, question |-> <<"Q">>, options |-> column,
                            created_at |-> 0],
                  votes |-> TallyVotes(c0, c1, c2, voters)]

\* processPollAnalytics(poll, votes) of the sample
ProcessPollAnalytics ==
    /\ sample # NoSample
    /\ view = NoView
    /\ view' = processPollAnalytics(sample.poll, sample.votes)
    /\ UNCHANGED <<polls, options, votes, pollSeq, uniqueVoteIndex, call, forms>>
    /\ UNCHANGED <<response, now, sample, ui>>

\* processAnalyticsData([poll], votes) of the sample
ProcessAnalyticsData ==
    /\ sample # NoSample
    /\ view = NoView
    /\ view' = processAnalyticsData(<<sample.poll>>, sample.votes)
    /\ UNCHANGED <<polls, options, votes, pollSeq, uniqueVoteIndex, call, forms>>
    /\ UNCHANGED <<response, now, sample, ui>>

NextTally == ProcessPollAnalytics \/ ProcessAnalyticsData

SpecTally == InitTally /\ [][NextTally]_vars

----------------------------------------------------------------------------
(* The poll creation form *)

\* Most options the form is given.
MaxFormOptions == 4

\* opts.filter((_, i) => i !== idx)
WithoutIndex(opts, idx) ==
    [i \in 1..(Len(opts) - (IF idx < Len(opts) THEN 1 ELSE 0)) |->
        IF i <= idx THEN opts[i] ELSE opts[i + 1]]

\* React renders the component again: the handlers of the new render close
\* over the current option list.
Render ==
    /\ ui.rendered # ui.options
    /\ ui' = [ui EXCEPT !.rendered = ui.options]
    /\ UNCHANGED <<polls, options, votes, pollSeq, uniqueVoteIndex, call, forms>>
    /\ UNCHANGED <<response, view, now, sample>>

\* addOption = () => setOptions((opts) => [...opts, ""])
AddOption ==
    /\ Len(ui.options) < MaxFormOptions
    /\ ui' = [ui EXCEPT !.options = Append(@, "")]
    /\ UNCHANGED <<polls, options, votes, pollSeq, uniqueVoteIndex, call, forms>>
    /\ UNCHANGED <<response, view, now, sample>>

\* removeOption(idx) of the last render, on the Remove button of a rendered
\* option: if (options.length > 2) setOptions((opts) => opts.filter(...))
RemoveOption(idx) ==
    /\ idx \in 0..(Len(ui.rendered) - 1)
    /\ ui' = IF Len(ui.rendered) > 2
             THEN [ui EXCEPT !.options = WithoutIndex(@, idx)]
             ELSE ui
    /\ UNCHANGED <<polls, options, votes, pollSeq, uniqueVoteIndex, call, forms>>
    /\ UNCHANGED <<response, view, now, sample>>

\* handleOptionChange(idx, value) on the input of a rendered option:
\* setOptions((opts) => opts.map((opt, i) => (i === idx ? value : opt)))
HandleOptionChange(idx, value) ==
    /\ idx \in 0..(Len(ui.rendered) - 1)
    /\ ui' = [ui EXCEPT !.options =
                [i \in 1..Len(@) |-> IF i = idx + 1 THEN value ELSE @[i]]]
    /\ UNCHANGED <<polls, options, votes, pollSeq, uniqueVoteIndex, call, forms>>
    /\ UNCHANGED <<response, view, now, sample>>

\* The form as first rendered, beside the empty store.
InitForm ==
    /\ forms = FormInputs
    /\ polls = <<>>
    /\ options = [k \in PollIds |-> <<>>]
    /\ votes = [k \in PollIds |-> <<>>]
    /\ pollSeq = 0
    /\ uniqueVoteIndex \in BOOLEAN
    /\ call = [p \in Procs |-> IdleCall]
    /\ response = NoResponse
    /\ Quiet

\* The events of the form, each handled by the handlers of the last render.
NextForm ==
    \/ Render
    \/ AddOption
    \/ \E idx \in 0..(MaxFormOptions - 1) : RemoveOption(idx)
    \/ \E idx \in 0..(MaxFormOptions - 1), value \in {"", "x"} :
        HandleOptionChange(idx, value)

SpecForm == InitForm /\ [][NextForm]_vars

\* Most polls a listed store holds.
MaxListed == 12

\* The store after any number of createPoll calls of the first form, each by
\* either user, have returned { error: null } one after the other.
InitListing ==
    /\ forms = SubSeq(FormInputs, 1, 1)
    /\ \E n \in 0..MaxListed : \E owner \in [1..n -> Users] :
        /\ polls = [k \in 1..n |-> NewPollRow(owner[k], ParseForm(1).data, k)]
        /\ options = [k \in 1..MaxListed |->
                        IF k <= n THEN ParseForm(1).data.options ELSE <<>>]
        /\ pollSeq = n
    /\ votes = [k \in 1..MaxListed |-> <<>>]
    /\ uniqueVoteIndex \in BOOLEAN
    /\ call = [p \in Procs |-> IdleCall]
    /\ response = NoResponse
    /\ Quiet

\* Listing and reading polls.
NextListing ==
    \/ Respond
    \/ \E p \in Procs :
        \/ GetUserPolls(p)
        \/ GetPollById(p)

SpecListing == InitListing /\ [][NextListing]_vars

\* status: 'draft' | 'open' | 'closed'
PollStatuses == {"draft", "open", "closed"}

\* Poll 1 of u1 with its three options, in any of the three statuses.
InitPublish ==
    /\ forms = FormInputs
    /\ \E status \in PollStatuses :
        polls = [k \in {1} |->
                   [NewPollRow("u1", ParseForm(2).data, 1) EXCEPT !.status = status]]
    /\ options = [k \in PollIds |-> IF k = 1 THEN ParseForm(2).data.options ELSE <<>>]
    /\ votes = [k \in PollIds |-> <<>>]
    /\ pollSeq = 1
    /\ uniqueVoteIndex \in BOOLEAN
    /\ call = [p \in Procs |-> IdleCall]
    /\ response = NoResponse
    /\ Quiet

\* Editing, publishing and deleting a poll of any status, concurrently.
SpecPublish == InitPublish /\ [][NextEdit]_vars

----------------------------------------------------------------------------
(* Claims *)

\* User u has a vote on poll k.
HasVote(k, u) == \E i \in 1..Len(votes[k]) : votes[k][i].user_id = u

\* The step is a step of the request in slot p: r is the request.
StepOf(p, r) ==
    /\ call'[p] # call[p]
    /\ r = IF call[p].pc = "idle" THEN call'[p] ELSE call[p]

\* The step is the first step of a request of operation op and returns its result.
FirstStepReturn(op) == response'.op = op /\ call' = call

\* C1: in every reachable state, also when two submitVote calls of one user on
\* one poll interleave between the duplicate check and the insert, the votes
\* relation holds at most one vote per (poll, user) pair.
C1_OneVotePerPollAndUser ==
    \A k \in PollIds : \A i, j \in 1..Len(votes[k]) :
        votes[k][i].user_id = votes[k][j].user_id => i = j

\* What a reader of poll k sees: its row, its option rows, its vote rows.
PollView(k) ==
    [poll |-> {polls[j] : j \in DOMAIN polls \cap {k}},
     options |-> options[k], votes |-> votes[k]]

MutatingOps == {"updatePoll", "deletePoll", "publishPoll"}

\* C2: an updatePoll, deletePoll or publishPoll call by an authenticated user
\* who is not the owner of poll k leaves the question, status, schedule, option
\* rows and vote rows of k as they were: no step of such a call changes them.
C2_NonOwnerChangesNothing ==
    [][\A k \in DOMAIN polls : \A u \in Users \ {polls[k].user_id} :
          ( \/ \E p \in Procs : \E r \in {call[p], call'[p]} :
                  StepOf(p, r) /\ r.op \in MutatingOps /\ r.pollId = k /\ r.user = u
            \/ /\ FirstStepReturn(response'.op)
               /\ response'.op \in MutatingOps
               /\ response'.pollId = k /\ response'.user = u )
          => PollView(k)' = PollView(k)]_vars

\* C3: in every reachable state every stored poll has between 2 and 10 option
\* rows, also between the steps of createPoll and updatePoll, when an option
\* insert fails, and when two updatePoll calls interleave.
C3_PollHasTwoToTenOptions ==
    \A k \in DOMAIN polls :
        Len(options[k]) >= MinOptions /\ Len(options[k]) <= MaxOptions

\* C7: when the store enforces uniqueness on (poll, user) and rejects the
\* insert of a submitVote call for it, the call returns AlreadyVoted.
C7_UniqueViolationIsAlreadyVoted ==
    [][\A p \in Procs :
          (call[p].pc = "vote_insert" /\ call'[p] # call[p]
              /\ response'.store = "unique_violation")
          => ErrorKind(response'.error) = "AlreadyVoted"]_vars

\* C10: for any interleaving of concurrent createPoll calls, the option rows a
\* call inserts are attached to the poll row that same call inserted.
C10_OptionsAttachedToOwnPoll ==
    [][\A p \in Procs :
          (call[p].pc = "create_insertOptions" /\ call'[p] # call[p])
          => \A k \in PollIds : options'[k] # options[k] => k = call[p].data]_vars

\* x is an integer in 0..n-1.
ValidIndex(x, n) == ~x.frac /\ x.whole >= 0 /\ x.whole < n

\* The step is the step of slot p that leaves pc.
StepFrom(p, pc) == call[p].pc = pc /\ call'[p] # call[p]

\* The step is the first step of a submitVote call in slot p and the call goes on.
VoteGoesOn(p) == call[p].pc = "idle" /\ call'[p].pc = "vote_countExisting"

\* C4: for an authenticated user u with no vote on an existing poll k, the
\* insert of submitVote(k, i) succeeds and appends exactly the row (k, u, i);
\* with a vote of u on k present, the duplicate check of a submitVote by u on k
\* returns AlreadyVoted and records nothing, whatever valid index was submitted
\* (storage failures aside).
C4_FirstVoteRecordedSecondRejected ==
    [][\A p \in Procs :
          LET k == call[p].pollId
              u == call[p].user
          IN  /\ (StepFrom(p, "vote_countExisting") /\ response'.store # "failed")
                  => /\ votes' = votes
                     /\ IF HasVote(k, u)
                        THEN response'.op = "submitVote"
                             /\ ErrorKind(response'.error) = "AlreadyVoted"
                        ELSE call'[p].pc = "vote_insert"
              /\ (StepFrom(p, "vote_insert") /\ response'.store # "failed"
                    /\ k \in DOMAIN polls /\ ~HasVote(k, u))
                  => /\ response'.op = "submitVote" /\ response'.error = Null
                     /\ votes' = [votes EXCEPT ![k] = Append(@,
                            [user_id |-> u,
                             option_index |-> call[p].optionIndex.whole,
                             created_at |-> now])]]_vars

\* A second submitVote with another valid index was answered AlreadyVoted and
\* the one vote of the user is the first one.
C4_Witness ==
    /\ response.op = "submitVote" /\ response.error = MsgAlreadyVoted
    /\ response.pollId \in DOMAIN polls
    /\ CountVotes(response.pollId, response.user) = 1
    /\ \E i \in 1..Len(votes[response.pollId]) :
          /\ votes[response.pollId][i].user_id = response.user
          /\ votes[response.pollId][i].option_index # response.optionIndex.whole

\* C5: submitVote by an authenticated user on an existing poll with n options
\* rejects every index that is negative, non-integer or >= n with InvalidInput
\* and records no vote; it goes on to the duplicate check exactly for the
\* indices 0..n-1 (the lookup of the poll not failing).
C5_IndexBounds ==
    [][\A k \in DOMAIN polls :
          LET n == Len(options[k])
          IN  /\ (FirstStepReturn("submitVote") /\ response'.user \in Users
                    /\ response'.pollId = k /\ response'.store # "failed")
                  => /\ ~ValidIndex(response'.optionIndex, n)
                     /\ ErrorKind(response'.error) = "InvalidInput"
                     /\ votes' = votes
              /\ \A p \in Procs :
                    (VoteGoesOn(p) /\ call'[p].pollId = k)
                    => ValidIndex(call'[p].optionIndex, n) /\ votes' = votes]_vars

\* The index equal to the number of options of the poll was rejected.
C5_Witness ==
    /\ response.op = "submitVote" /\ response.error = MsgInvalidOption
    /\ response.pollId \in DOMAIN polls
    /\ ~response.optionIndex.frac
    /\ response.optionIndex.whole = Len(options[response.pollId])
    /\ response.optionIndex.whole > 0

\* C6: whenever submitVote returns a non-null error the votes relation is as
\* it was before the returning step, and every stored vote carries the id of
\* an authenticated user.
C6_NoVoteOnError ==
    /\ [](\A k \in PollIds : \A i \in 1..Len(votes[k]) : votes[k][i].user_id \in Users)
    /\ [][(response'.op = "submitVote" /\ response'.error # Null)
            => votes' = votes]_vars

\* The insert of a vote failed in the store and the poll has no vote.
C6_Witness ==
    /\ response.op = "submitVote" /\ response.error = MsgStoreFailure
    /\ response.user \in Users
    /\ response.pollId \in DOMAIN polls
    /\ votes[response.pollId] = <<>>
    /\ ValidIndex(response.optionIndex, Len(options[response.pollId]))

\* C8 as stated: with a vote of u on k recorded, a submitVote by u on k that
\* starts then is answered AlreadyVoted whatever index it submits.
C8_AlwaysAlreadyVoted ==
    [][\A k \in DOMAIN polls : \A u \in Users :
          (HasVote(k, u) /\ FirstStepReturn("submitVote") /\ response'.user = u
              /\ response'.pollId = k /\ response'.store # "failed")
          => ErrorKind(response'.error) = "AlreadyVoted"]_vars

\* C8: once a vote of u on poll k is recorded, a later submitVote by u on k
\* fails and records nothing: with InvalidInput when the index is not an
\* integer in 0..n-1 for the n options k has then, with AlreadyVoted otherwise
\* (storage failures aside).
C8_LaterVoteFails ==
    [][\A k \in DOMAIN polls : \A u \in Users :
          HasVote(k, u) =>
            /\ (FirstStepReturn("submitVote") /\ response'.user = u
                  /\ response'.pollId = k /\ response'.store # "failed")
                => /\ ~ValidIndex(response'.optionIndex, Len(options[k]))
                   /\ ErrorKind(response'.error) = "InvalidInput"
                   /\ votes' = votes
            /\ \A p \in Procs :
                  /\ (VoteGoesOn(p) /\ call'[p].pollId = k /\ call'[p].user = u)
                      => ValidIndex(call'[p].optionIndex, Len(options[k]))
                  /\ (StepFrom(p, "vote_countExisting") /\ call[p].pollId = k
                        /\ call[p].user = u /\ response'.store # "failed")
                      => /\ response'.op = "submitVote"
                         /\ ErrorKind(response'.error) = "AlreadyVoted"
                         /\ votes' = votes]_vars

\* The index of the recorded vote of the user is rejected as invalid after an
\* updatePoll left the poll with fewer options.
C8_Witness ==
    /\ response.op = "submitVote" /\ response.error = MsgInvalidOption
    /\ response.pollId \in DOMAIN polls
    /\ ~response.optionIndex.frac
    /\ \E i \in 1..Len(votes[response.pollId]) :
          /\ votes[response.pollId][i].user_id = response.user
          /\ votes[response.pollId][i].option_index = response.optionIndex.whole

\* C9 as stated: for a well-formed id of a poll that does not exist the result
\* is NotFound for every submitted option index.
C9_NotFoundForEveryIndex ==
    [][(FirstStepReturn("submitVote") /\ response'.user \in Users
          /\ response'.pollId \in PollIds \ DOMAIN polls)
        => ErrorKind(response'.error) = "NotFound"]_vars

\* The error of the earliest failing check of the request the response answers,
\* the check of the sign and integrality of the index coming before the lookup.
C9_EarliestFailure(resp) ==
    IF resp.user = Null THEN "Unauthenticated"
    ELSE IF resp.pollId \notin PollIds THEN "InvalidInput"
    ELSE IF resp.optionIndex.frac \/ resp.optionIndex.whole < 0 THEN "InvalidInput"
    ELSE IF resp.store = "failed" \/ resp.pollId \notin DOMAIN polls THEN "NotFound"
    ELSE "InvalidInput"

\* C9: submitVote reports the failure of the earliest failing step in the
\* order AuthCheck, IdFormatCheck, index is a non-negative integer, PollLookup,
\* index below the number of options, DuplicateCheck; for a well-formed id of
\* a poll that does not exist the result is NotFound for every non-negative
\* integer index and InvalidInput for every other index.
C9_EarliestFailingStep ==
    [][/\ FirstStepReturn("submitVote")
            => /\ ErrorKind(response'.error) = C9_EarliestFailure(response')
               /\ (response'.user \in Users /\ response'.pollId \in DOMAIN polls
                     /\ response'.store # "failed")
                   => ~ValidIndex(response'.optionIndex, Len(options[response'.pollId]))
       /\ \A p \in Procs :
             /\ VoteGoesOn(p)
                 => /\ call'[p].user \in Users
                    /\ call'[p].pollId \in DOMAIN polls
                    /\ ValidIndex(call'[p].optionIndex, Len(options[call'[p].pollId]))
             /\ (call'[p] # call[p] /\ response'.error = MsgAlreadyVoted)
                 => call[p].pc = "vote_countExisting"]_vars

\* A negative or fractional index on a well-formed id of no poll was answered
\* InvalidInput.
C9_Witness ==
    /\ response.op = "submitVote" /\ response.error = MsgInvalidOption
    /\ response.user \in Users
    /\ response.pollId \in PollIds \ DOMAIN polls

\* C11: when updatePoll by the owner returns { error: null }, the option rows
\* of the poll are exactly the normalized submitted options in submitted
\* order, none of the previous ones remaining, also when another updatePoll
\* on the same poll interleaves.
C11_UpdateReplacesOptions ==
    [][\A p \in Procs :
          LET k == call[p].pollId
          IN  (StepFrom(p, "update_insertOptions") /\ response'.op = "updatePoll"
                 /\ response'.error = Null
                 /\ k \in DOMAIN polls /\ polls[k].user_id = call[p].user)
              => options'[k] = normalizeOptions(forms[call[p].form].options)]_vars

\* C12: in every reachable state no poll has two option rows whose texts are
\* equal ignoring case.
C12_OptionsUniqueIgnoringCase ==
    \A k \in PollIds : \A i, j \in 1..Len(options[k]) :
        toLocaleLowerCase(options[k][i]) = toLocaleLowerCase(options[k][j]) => i = j

\* The pairs of a letter and its capital.
CasePairs == {{"a", "A"}, {"b", "B"}, {"c", "C"}, {"q", "Q"}, {"r", "R"}}

\* s and t are equal ignoring case.
SameIgnoringCase(s, t) ==
    /\ Len(s) = Len(t)
    /\ \A i \in 1..Len(s) : s[i] = t[i] \/ {s[i], t[i]} \in CasePairs

\* s without its leading and trailing white space.
Stripped(s) ==
    LET inked == {i \in 1..Len(s) : s[i] # " "}
    IN  IF inked = {} THEN <<>>
        ELSE SubSeq(s, CHOOSE i \in inked : \A j \in inked : i <= j,
                       CHOOSE i \in inked : \A j \in inked : i >= j)

\* The positions of raw whose value is not blank and has no earlier occurrence
\* ignoring case.
FirstOccurrences(raw) ==
    {i \in 1..Len(raw) :
        /\ Stripped(raw[i]) # <<>>
        /\ \A j \in 1..(i - 1) : ~SameIgnoringCase(Stripped(raw[j]), Stripped(raw[i]))}

\* The values at the first ten of these positions, in input order.
FirstTenFirstOccurrences(raw) ==
    LET K == FirstOccurrences(raw)
        n == IF Cardinality(K) < 10 THEN Cardinality(K) ELSE 10
        at(m) == CHOOSE i \in K : Cardinality({j \in K : j < i}) = m - 1
    IN  [m \in 1..n |-> Stripped(raw[at(m)])]

\* C13: for every input sequence of raw strings normalizeOptions returns the
\* trimmed, non-empty values, each kept only at its first occurrence ignoring
\* case, in input order, cut to the first 10 of them.
C13_NormalizeOptions ==
    \A f \in DOMAIN forms :
        normalizeOptions(forms[f].options) = FirstTenFirstOccurrences(forms[f].options)

\* createPoll stored the ten options left of a list of more than ten fields
\* with blanks and repeated values.
C13_Witness ==
    \E k \in DOMAIN polls :
        /\ Len(forms[1].options) > 10
        /\ Cardinality(FirstOccurrences(forms[1].options)) > 10
        /\ \E i \in 1..Len(forms[1].options) :
              i \notin FirstOccurrences(forms[1].options)
        /\ Len(options[k]) = 10
        /\ options[k] = FirstTenFirstOccurrences(forms[1].options)

\* The conditions of the validator on the question and the options of a form.
QuestionAndOptionsOk(form) ==
    LET q == trim(form.question)
        os == normalizeOptions(form.options)
    IN  /\ Len(q) >= 1 /\ Len(q) <= MaxQuestionLen
        /\ Len(os) >= MinOptions /\ Len(os) <= MaxOptions
        /\ \A i \in 1..Len(os) : Len(os[i]) >= 1 /\ Len(os[i]) <= MaxOptionLen

\* The step is the first step of a createPoll call, or of an updatePoll call
\* with a well-formed id, and returns its result.
ValidatedReturn ==
    \/ FirstStepReturn("createPoll")
    \/ FirstStepReturn("updatePoll") /\ response'.pollId \in PollIds

\* C14: the poll validator accepts an input if and only if the question has
\* length 1..200 after trimming, the normalized option list has 2..10 entries
\* and every option has length 1..100; every rejected input yields the one
\* validation message and causes no storage access.
C14_ValidatorAcceptsIff ==
    [][/\ ValidatedReturn
           => /\ (response'.error = MsgValidation)
                    <=> ~QuestionAndOptionsOk(forms[response'.form])
              /\ response'.error = MsgValidation
                    => /\ response'.store = "none"
                       /\ UNCHANGED <<polls, options, votes>>
       /\ \A p \in Procs :
             (call[p].pc = "idle"
                 /\ call'[p].pc \in {"create_selectId", "update_deleteOptions"})
             => QuestionAndOptionsOk(forms[call'[p].form])]_vars

\* The submitted option list has a blank option, two equal options, fewer
\* than two options or an option that is too long.
BlankDuplicateFewOrLong(raw) ==
    \/ \E i \in 1..Len(raw) : trim(raw[i]) = <<>>
    \/ \E i, j \in 1..Len(raw) : i # j /\ raw[i] = raw[j]
    \/ Len(raw) < MinOptions
    \/ \E i \in 1..Len(raw) : Len(trim(raw[i])) > MaxOptionLen

\* C15: createPoll and updatePoll return a validation error, and persist
\* nothing, whenever the submitted option list contains a blank option or two
\* options that are duplicates of each other, fewer than 2 options or an
\* overly long value.
C15_BlankOrDuplicateRejected ==
    [][/\ (ValidatedReturn
              /\ BlankDuplicateFewOrLong(forms[response'.form].options))
           => /\ response'.error = MsgValidation
              /\ UNCHANGED <<polls, options, votes>>
       /\ \A p \in Procs :
             (call[p].pc = "idle"
                 /\ call'[p].pc \in {"create_selectId", "update_deleteOptions"})
             => ~BlankDuplicateFewOrLong(forms[call'[p].form].options)]_vars

\* C16: createPoll by an authenticated caller with valid input persists one
\* new poll whose owner is the caller, together with exactly the normalized
\* submitted options; createPoll with no authenticated caller fails with
\* Unauthenticated and writes no poll or option row.
C16_CreatePersistsPollAndOptions ==
    [][/\ \A p \in Procs :
             LET k == call[p].data
             IN  (StepFrom(p, "create_insertOptions") /\ response'.op = "createPoll"
                    /\ response'.error = Null)
                 => /\ k \in DOMAIN polls'
                    /\ polls'[k].user_id = call[p].user
                    /\ options'[k] = normalizeOptions(forms[call[p].form].options)
       /\ (FirstStepReturn("createPoll") /\ response'.user = Null
              /\ ParseForm(response'.form).success)
           => /\ ErrorKind(response'.error) = "Unauthenticated"
              /\ UNCHANGED <<polls, options, votes>>
       /\ \A p \in Procs :
             (call[p].pc = "idle" /\ call'[p].pc = "create_selectId")
             => /\ call'[p].user \in Users
                /\ DOMAIN polls' = DOMAIN polls \cup {call'[p].data}
                /\ call'[p].data \notin DOMAIN polls]_vars

\* C17: poll status moves only forward: once the status of a poll is open no
\* step of createPoll, updatePoll, publishPoll, submitVote or deletePoll
\* returns it to another status, and a deleted poll does not come back.
C17_StatusOnlyForward ==
    [][\A k \in PollIds :
          /\ (k \in DOMAIN polls /\ polls[k].status = "open" /\ k \in DOMAIN polls')
                => polls'[k].status = "open"
          /\ (k \notin DOMAIN polls /\ k <= pollSeq) => k \notin DOMAIN polls']_vars

\* The owner's updatePoll of an open poll returned { error: null } and the
\* poll is still open.
C17_Witness ==
    /\ response.op = "updatePoll" /\ response.error = Null
    /\ response.pollId \in DOMAIN polls
    /\ polls[response.pollId].user_id = response.user
    /\ polls[response.pollId].status = "open"

C19_VotesImmutable ==
    [][\A k \in PollIds :
          \/ /\ Len(votes'[k]) >= Len(votes[k])
             /\ SubSeq(votes'[k], 1, Len(votes[k])) = votes[k]
          \/ /\ k \in DOMAIN polls /\ k \notin DOMAIN polls'
             /\ response'.op = "deletePoll" /\ response'.error = Null
             /\ response'.pollId = k /\ response'.user = polls[k].user_id]_vars

\* The owner's updatePoll returned { error: null } on a poll with a recorded
\* vote and left it fewer options than the index of the vote, which is as cast.
C19_Witness ==
    /\ response.op = "updatePoll" /\ response.error = Null
    /\ response.pollId \in DOMAIN polls
    /\ \E i \in 1..Len(votes[response.pollId]) :
          votes[response.pollId][i].option_index >= Len(options[response.pollId])

\* The server actions that take a poll identifier.
IdOps ==
    {"getPollById", "submitVote", "updatePoll", "deletePoll", "publishPoll",
     "getPollAnalytics"}

\* The step returns the result of a call of one of them whose identifier is
\* not the text of a UUID.
MalformedIdReturn == response'.op \in IdOps /\ response'.pollId \notin PollIds

\* The step is the first of its call, makes no storage round trip and leaves
\* the three relations as they were.
NoStorageAccess ==
    /\ call' = call
    /\ response'.store = "none"
    /\ UNCHANGED <<polls, options, votes>>

\* C20 as stated: the six server actions, given an identifier that is not
\* UUID-shaped, return an InvalidInput error without any read or write of the
\* polls, options or votes relations.
C20_MalformedIdInvalidInput ==
    [][MalformedIdReturn
          => ErrorKind(response'.error) = "InvalidInput" /\ NoStorageAccess]_vars

\* C20: the six server actions, given an identifier that is not UUID-shaped,
\* return an error without any read or write of the polls, options or votes
\* relations: Unauthenticated from submitVote and getPollAnalytics when no
\* user is logged in, InvalidInput in every other case.
C20_MalformedIdRejected ==
    [][/\ MalformedIdReturn
           => /\ NoStorageAccess
              /\ ErrorKind(response'.error) =
                    IF response'.op \in {"submitVote", "getPollAnalytics"}
                          /\ response'.user = Null
                    THEN "Unauthenticated" ELSE "InvalidInput"
       /\ \A p \in Procs :
             (call'[p] # call[p] /\ call'[p].pc # "idle" /\ call'[p].op \in IdOps)
             => call'[p].pollId \in PollIds]_vars

\* submitVote with a malformed identifier and no user logged in was answered
\* Unauthenticated.
C20_Witness ==
    /\ response.op = "submitVote"
    /\ response.pollId \notin PollIds
    /\ response.user = Null
    /\ ErrorKind(response.error) = "Unauthenticated"

----------------------------------------------------------------------------
(* publishPoll's effect, atomicity of the writes, votes against options and status *)

C27_AllOrNothing ==
    [][(response'.op \in {"createPoll", "updatePoll"} /\ response'.error # Null)
        => /\ polls' = polls
           /\ options' = options
           /\ \A p \in Procs :
               (StepFrom(p, "create_selectId") \/ StepFrom(p, "create_insertOptions"))
               => call[p].data \notin DOMAIN polls']_vars

\* C28: while no edit is under way, every stored vote's option index is smaller
\* than the number of options its poll has now, so that the votes counted for
\* the options of a poll add up to all its votes.
C28_VoteIndexWithinOptions ==
    NoEditInFlight =>
        \A k \in DOMAIN polls : \A i \in 1..Len(votes[k]) :
            votes[k][i].option_index < Len(options[k])

\* C29: a step records a vote only on a poll whose status is open.
C29_VotesOnlyOnOpenPolls ==
    [][\A k \in PollIds :
        Len(votes'[k]) > Len(votes[k]) =>
            k \in DOMAIN polls /\ polls[k].status = "open"]_vars

----------------------------------------------------------------------------
(* The analytics and the listing *)

\* What is left of the store when the polls of every user but user, and the
\* votes on them, are taken away.
OwnPolls(user) == [k \in OwnedBy(polls, user) |-> polls[k]]
OwnVotes(user) ==
    [k \in PollIds |-> IF k \in OwnedBy(polls, user) THEN votes[k] ELSE <<>>]
AllVotesOn(rel) == SelectVotesIn(rel, PollIds, MaxPolls)

\* C21: getPollAnalytics returns analytics only for a poll of the caller and
\* otherwise no analytics with an error; what getUserAnalytics and
\* getVotingTrends return to a caller is what they return on the store with
\* every other user's polls and votes taken away.
C21_AnalyticsOwnerScoped ==
    [][/\ response'.op = "getPollAnalytics" =>
            IF response'.error = Null
            THEN /\ view'.kind = "pollAnalytics"
                 /\ view'.poll.id = response'.pollId
                 /\ response'.pollId \in OwnedBy(polls, response'.user)
            ELSE view' = NoView
       /\ (response'.op = "getUserAnalytics" /\ response'.error = Null) =>
            view' = processAnalyticsData(
                        SelectUserPolls(OwnPolls(response'.user), response'.user),
                        AllVotesOn(OwnVotes(response'.user)))
       /\ (response'.op = "getVotingTrends" /\ response'.error = Null) =>
            view' = IF OwnedBy(polls, response'.user) = {}
                    THEN [kind |-> "trends", trends |-> <<>>]
                    ELSE processVotingTrends(
                            Since(AllVotesOn(OwnVotes(response'.user)), response'.data),
                            response'.data)]_vars

\* getUserAnalytics has returned to the owner of a poll with a vote while
\* another user's poll has a vote too.
C21_Witness ==
    /\ response.op = "getUserAnalytics"
    /\ response.error = Null
    /\ view.overview.totalVotes = 1
    /\ \E k \in DOMAIN polls : polls[k].user_id # response.user /\ votes[k] # <<>>

\* The number of polls of the owner of poll k created after it.
RankOf(k) ==
    Cardinality({j \in OwnedBy(polls, polls[k].user_id) :
                    polls[j].created_at > polls[k].created_at})

\* C22: for an authenticated caller and page p >= 1, getUserPolls returns only
\* polls of the caller, at most 10 of them, namely those ranked (p-1)*10 ..
\* p*10-1 in descending order of creation; for an unauthenticated caller it
\* returns an empty list with an error.
C22_ListingPage ==
    [][response'.op = "getUserPolls" =>
        LET listed == view'.polls
            page == response'.data
            mine == OwnedBy(polls, response'.user)
        IN  /\ response'.user = Null => listed = <<>> /\ response'.error # Null
            /\ response'.error = Null =>
                /\ Len(listed) <= 10
                /\ \A i \in 1..Len(listed) :
                    /\ listed[i].id \in mine
                    /\ listed[i].user_id = response'.user
                    /\ RankOf(listed[i].id) = (page - 1) * 10 + i - 1
                /\ \A k \in mine :
                    (RankOf(k) >= (page - 1) * 10 /\ RankOf(k) <= page * 10 - 1)
                        => \E i \in 1..Len(listed) : listed[i].id = k]_vars

\* The second page of a caller with more than ten polls has been returned.
C22_Witness ==
    /\ response.op = "getUserPolls"
    /\ response.error = Null
    /\ response.data = 2
    /\ Len(view.polls) >= 1
    /\ \E k \in DOMAIN polls : polls[k].user_id # response.user

\* round(100 * c / T) for integers c >= 0 and T > 0, halves rounded up
RoundedPercent(c, T) == (200 * c + T) \div (2 * T)

\* The claim about the option results computed from the sample.
TallyAsClaimed(results, totalVotes, uniqueVoters) ==
    LET T == Len(sample.votes)
        c(index) == Cardinality({j \in 1..T : sample.votes[j].option_index = index})
    IN  /\ totalVotes = T
        /\ uniqueVoters = Cardinality({sample.votes[j].user_id : j \in 1..T})
        /\ Len(results) = Len(sample.poll.options.items)
        /\ \A i \in 1..Len(results) :
            /\ results[i].votes = c(i - 1)
            /\ results[i].percentage =
                    IF T > 0 THEN RoundedPercent(c(i - 1), T) ELSE 0

VotesOnDay(user, date) ==
    Cardinality({<<k, i>> \in PollIds \X (1..MaxVotes) :
                    /\ k \in OwnedBy(polls, user)
                    /\ i <= Len(votes[k])
                    /\ votes[k][i].created_at = date})

\* C24: for an authenticated owner and a window of N days getVotingTrends
\* returns exactly N entries, one per consecutive day ending today, oldest
\* first, each with the number of votes of that day (0 when there are none);
\* also for an owner with no polls or no votes.
C24_TrendsAreDense ==
    [][(response'.op = "getVotingTrends" /\ response'.error = Null) =>
        LET N == response'.data
            series == view'.trends
        IN  /\ Len(series) = N
            /\ \A j \in 1..Len(series) :
                /\ series[j].date = now - (N - j)
                /\ series[j].votes = VotesOnDay(response'.user, series[j].date)]_vars

\* C25: once an owner's createPoll with two options has succeeded, the poll is
\* in the first page of the owner's getUserPolls listing; once a user has then
\* cast one vote for index 0, the owner's analytics of the poll show option 0
\* with 1 vote (100%) and option 1 with 0 votes (0%).
C25_CreateVoteAnalytics ==
    [][/\ (/\ response'.op = "getUserPolls"
           /\ response'.error = Null
           /\ response'.data = 1) =>
            \A k \in OwnedBy(polls, response'.user) :
                Len(options[k]) = 2 =>
                    \E i \in 1..Len(view'.polls) : view'.polls[i].id = k
       /\ (/\ response'.op = "getPollAnalytics"
           /\ response'.error = Null
           /\ Len(options[response'.pollId]) = 2
           /\ Len(votes[response'.pollId]) = 1
           /\ votes[response'.pollId][1].option_index = 0) =>
            view'.optionResults =
                << [option |-> options[response'.pollId][1], votes |-> 1,
                    percentage |-> 100],
                   [option |-> options[response'.pollId][2], votes |-> 0,
                    percentage |-> 0] >>]_vars

----------------------------------------------------------------------------
(* The poll creation form *)

====
